---------------------------- MODULE Spec2Model ----------------------------
(***************************************************************************)
(* Verification Flow Controller of secure-memberID-share: the one-time     *)
(* code sign-in page (email -> code -> success), its session restore, the  *)
(* copy-to-clipboard indicator and the admin table view.                   *)
(*                                                                         *)
(* A JavaScript string is a sequence of one-character strings, so that     *)
(* trim(), toLowerCase(), replace() and the regular expressions are        *)
(* computed character by character.  A nullable value is None or Some(v).  *)
(* Every handler runs to its next await as one atomic step (single         *)
(* threaded event loop); a pending await is a record in `flights`, and its *)
(* resumption is a separate step taking the collaborator's answer.         *)
(***************************************************************************)
EXTENDS Integers, Sequences, FiniteSets, Bags, TLC

(***************************************************************************)
(* Bounds of the model.                                                    *)
(***************************************************************************)
MaxFlights == 2        \* awaits pending at the same time
MaxTimers == 2         \* timer handles the model tells apart
MaxAdminRows == 2      \* rows the admin table grows to
MaxEmailLen == 6       \* characters typed into the email field key by key

(***************************************************************************)
(* Nullable values.                                                        *)
(***************************************************************************)
None == <<>>
Some(v) == <<v>>
IsNull(o) == o = None
Val(o) == o[1]

(***************************************************************************)
(* Characters and strings.                                                 *)
(***************************************************************************)
WhiteSpace == {" ", "\t", "\n"}
Digits == {"0", "1", "2", "3", "4", "5", "6", "7", "8", "9"}
UpperCase == <<"A", "B", "C", "D", "E", "F", "G", "H", "I", "J", "K", "L", "M",
               "N", "O", "P", "Q", "R", "S", "T", "U", "V", "W", "X", "Y", "Z">>
LowerCase == <<"a", "b", "c", "d", "e", "f", "g", "h", "i", "j", "k", "l", "m",
               "n", "o", "p", "q", "r", "s", "t", "u", "v", "w", "x", "y", "z">>

SetMin(S) == CHOOSE x \in S : \A y \in S : x <= y
SetMax(S) == CHOOSE x \in S : \A y \in S : y <= x

\* String.prototype.trim
Trim(s) ==
    LET keep == {i \in DOMAIN s : s[i] \notin WhiteSpace}
    IN  IF keep = {} THEN <<>> ELSE SubSeq(s, SetMin(keep), SetMax(keep))

\* String.prototype.toLowerCase
LowerChar(c) ==
    IF \E i \in DOMAIN UpperCase : UpperCase[i] = c
    THEN LowerCase[CHOOSE i \in DOMAIN UpperCase : UpperCase[i] = c]
    ELSE c
ToLowerCase(s) == [i \in DOMAIN s |-> LowerChar(s[i])]

\* key.replace(/_/g, ' ')
ReplaceUnderscores(s) == [i \in DOMAIN s |-> IF s[i] = "_" THEN " " ELSE s[i]]

\* /^[^\s@]+@[^\s@]+\.[^\s@]+$/ run as an automaton over the characters:
\* 0 start, 1 local part, 2 after '@', 3 domain, 4 after '.', 5 rest (accepting)
PlainChar(c) == c \notin WhiteSpace /\ c # "@"
EmailStep(q, c) ==
    CASE q = 0 -> IF PlainChar(c) THEN {1} ELSE {}
      [] q = 1 -> IF PlainChar(c) THEN {1} ELSE IF c = "@" THEN {2} ELSE {}
      [] q = 2 -> IF PlainChar(c) THEN {3} ELSE {}
      [] q = 3 -> IF c = "." THEN {3, 4} ELSE IF PlainChar(c) THEN {3} ELSE {}
      [] q = 4 -> IF PlainChar(c) THEN {5} ELSE {}
      [] q = 5 -> IF PlainChar(c) THEN {5} ELSE {}
RECURSIVE EmailRun(_, _, _)
EmailRun(Q, s, i) ==
    IF i > Len(s) THEN Q
    ELSE EmailRun(UNION {EmailStep(q, s[i]) : q \in Q}, s, i + 1)
\* variant: the pattern without the '\.[^\s@]+' part
EmailPattern_noDot(s) == EmailRun({0}, s, 1) \cap {3, 5} # {}
EmailPattern(s) == 5 \in EmailRun({0}, s, 1)

\* /^\d{6}$/ : consume digits one by one, counting them
RECURSIVE DigitRun(_, _)
DigitRun(s, i) ==
    IF i <= Len(s) /\ s[i] \in Digits THEN DigitRun(s, i + 1) ELSE i - 1
\* variant: /^\d{1,6}$/
CodePattern_upTo6(s) == DigitRun(s, 1) = Len(s) /\ Len(s) >= 1 /\ Len(s) <= 6
CodePattern(s) == DigitRun(s, 1) = 6 /\ Len(s) = 6

(***************************************************************************)
(* Values of a record row's columns, and their coercions.                  *)
(***************************************************************************)
JsString(s) == [t |-> "string", s |-> s, n |-> 0]
JsNumber(n) == [t |-> "number", s |-> <<>>, n |-> n]
JsNull == [t |-> "null", s |-> <<>>, n |-> 0]

\* truthiness of a value in .filter(([key, value]) => ... && value)
Truthy(v) ==
    CASE v.t = "string" -> v.s # <<>>
      [] v.t = "number" -> v.n # 0
      [] OTHER -> FALSE

DigitChars == <<"0", "1", "2", "3", "4", "5", "6", "7", "8", "9">>
RECURSIVE NatToString(_)
NatToString(n) ==
    IF n < 10 THEN <<DigitChars[n + 1]>>
    ELSE Append(NatToString(n \div 10), DigitChars[(n % 10) + 1])

\* String(value)
ToStr(v) ==
    CASE v.t = "string" -> v.s
      [] v.t = "number" -> NatToString(v.n)
      [] OTHER -> <<"n", "u", "l", "l">>


(***************************************************************************)
(* Program constants.                                                      *)
(***************************************************************************)
ADMIN_EMAILS == {
    <<"o", "l", "i", "v", "e", "r", "a", "b", "r", "e", "u", "@", "i", "c", "l", "o", "u", "d", ".", "c", "o", "m">>,
    <<"k", "a", "t", "i", "e", "l", "a", "w", "h", "u", "n", "@", "r", "a", "l", "e", "i", "g", "h", "c", "h", "r", "i", "s", "t", "i", "a", "n", ".", "c", "o", "m">>,
    <<"p", "e", "n", "n", "y", "h", "o", "w", "e", "l", "l", "@", "r", "a", "l", "e", "i", "g", "h", "c", "h", "r", "i", "s", "t", "i", "a", "n", ".", "c", "o", "m">> }

CodeMaxLength == 6

EmailEmptyMsg == "Please enter your email address."
EmailInvalidMsg == "Please enter a valid email address."
CodeEmptyMsg == "Please enter the 6-digit code."
CodeInvalidMsg == "The code must be exactly 6 digits."
SendFallbackMsg == "Unable to send code. Please try again."
SendThrownMsg == "Something went wrong while sending the code."
VerifyFallbackMsg == "Invalid or expired code."
VerifyThrownMsg == "Something went wrong during verification."
NoRowMsg == "No insurance info found for this email."
NoIdentifiersMsg == "No identifiers available for this user."
AdminLoadFailedMsg == "Failed to load admin data."
AdminLoadThrownMsg == "Unexpected error while loading admin data."
AdminSaveFailedMsg == "Failed to save changes."
AdminSaveThrownMsg == "Unexpected error while saving."

(***************************************************************************)
(* What the people and the collaborators can supply.                       *)
(***************************************************************************)
KeyEmail == <<"e", "m", "a", "i", "l">>
KeyPlanId == <<"p", "l", "a", "n", "_", "i", "d">>
KeyGroupNo == <<"g", "r", "o", "u", "p", "_", "n", "o">>

AdminAddress == <<"O", "l", "i", "v", "e", "r", "A", "b", "r", "e", "u", "@", "i", "C", "l", "o", "u", "d", ".", "c", "o", "m">>
MemberAddress == <<"u", "s", "e", "r", "@", "s", "c", "h", "o", "o", "l", ".", "e", "d", "u">>
\* addresses the Identity Provider reports for the signed-in user
UserEmails == {AdminAddress, MemberAddress}

Entry(k, v) == [key |-> k, value |-> v]
RowEmailOnly == <<Entry(KeyEmail, JsString(MemberAddress))>>
RowBlank == <<Entry(KeyEmail, JsString(MemberAddress)), Entry(KeyPlanId, JsString(<<>>))>>
RowZero == <<Entry(KeyEmail, JsString(MemberAddress)), Entry(KeyPlanId, JsNumber(0))>>
RowNull == <<Entry(KeyEmail, JsString(MemberAddress)), Entry(KeyPlanId, JsNull)>>
RowPlan == <<Entry(KeyEmail, JsString(MemberAddress)), Entry(KeyPlanId, JsString(<<"X", "1">>))>>
RowTwo == <<Entry(KeyPlanId, JsString(<<"X", "1">>)), Entry(KeyEmail, JsString(AdminAddress)),
            Entry(KeyGroupNo, JsNumber(42))>>
\* rows the Record Store answers a single-row fetch with
StoreRows == {RowEmailOnly, RowBlank, RowZero, RowNull, RowPlan, RowTwo}
\* row sets the Record Store answers the admin listing with
StoreTables == {<<>>, <<RowPlan>>, <<RowTwo, RowPlan>>}

\* values pasted or auto-filled into the fields
PaddedAddress == <<" ", "u", "s", "e", "r", "@", "s", "c", "h", "o", "o", "l", ".", "e", "d", "u", " ">>
GoodCode == <<"1", "2", "3", "4", "5", "6">>
EmailInputs == {PaddedAddress}
CodeInputs == {GoodCode}
\* keys pressed in the fields, one character at a time
EmailKeys == {"a", "@", ".", " "}
CodeKeys == {"1", "x", " "}
\* strings typed into a cell of the admin table
CellInputs == {<<>>, <<"Z", "9">>}

\* answers of the collaborators
ProviderMessage == "Email rate limit exceeded"
SendAnswers == {[kind |-> "ok", message |-> None],
                [kind |-> "error", message |-> Some(ProviderMessage)],
                [kind |-> "error", message |-> None],
                [kind |-> "throw", message |-> None]}
UserAnswers == {[kind |-> "user", email |-> Some(e)] : e \in UserEmails}
               \cup {[kind |-> "user", email |-> None],
                     [kind |-> "nouser", email |-> None],
                     [kind |-> "error", email |-> None],
                     [kind |-> "throw", email |-> None]}
RowAnswersOf(rows) == {[kind |-> "row", row |-> r] : r \in rows}
                      \cup {[kind |-> "norow", row |-> <<>>],
                            [kind |-> "error", row |-> <<>>],
                            [kind |-> "throw", row |-> <<>>]}
RowAnswers == RowAnswersOf(StoreRows)
TableAnswersOf(tables) == {[kind |-> "rows", rows |-> t] : t \in tables}
                          \cup {[kind |-> "nodata", rows |-> <<>>],
                                [kind |-> "error", rows |-> <<>>],
                                [kind |-> "throw", rows |-> <<>>]}
TableAnswers == TableAnswersOf(StoreTables)
VerifyMessage == "Token has expired or is invalid"
VerifyAnswers == {[kind |-> "ok", message |-> None],
                  [kind |-> "error", message |-> Some(VerifyMessage)],
                  [kind |-> "error", message |-> None],
                  [kind |-> "throw", message |-> None]}
PlainAnswers == {"ok", "error", "throw"}


(***************************************************************************)
(* State.                                                                  *)
(***************************************************************************)
VARIABLES
    step, email, code, sending, verifying,
    emailError, codeError, generalError,
    identifiers, copiedKey, copyTimeout,
    currentUserEmail, isAdmin,
    showAdmin, adminRows, adminColumns, adminLoading, adminError,
    flights,        \* pending awaits of the sign-in flow: [op, pc, arg]
    adminFlights,   \* pending awaits on the table store: [op, rows], where rows
                    \* is the payload of saveAdmin's upsert and, for openAdmin,
                    \* the rows in memory when the load was requested
    timers,         \* pending setTimeout callbacks: [id, key, superseded], where
                    \* superseded records the keys of the pending callbacks that
                    \* the clearTimeout before this setTimeout cancelled
    \* state that only the modal variant (routes/+page.svelte) has
    modalOpen, identifier, fetchingId

formVars == <<email, code, sending, verifying, emailError, codeError>>
copyVars == <<copiedKey, copyTimeout, timers>>
userVars == <<currentUserEmail, isAdmin>>
adminVars == <<showAdmin, adminRows, adminColumns, adminLoading, adminError, adminFlights>>
modalVars == <<modalOpen, identifier, fetchingId>>
vars == <<step, generalError, identifiers, formVars, copyVars, userVars, adminVars, flights,
          modalVars>>

Flight(op, pc, arg) == [op |-> op, pc |-> pc, arg |-> arg]
Pending == BagCardinality(flights) + BagCardinality(adminFlights)
Started(f) == flights (+) SetToBag({f})
Finished(f) == flights (-) SetToBag({f})
Awaiting(op, pc) == {f \in BagToSet(flights) : f.op = op /\ f.pc = pc}

\* if (!emailVal) return false; return ADMIN_EMAILS.includes(emailVal.toLowerCase())
computeIsAdmin(emailVal) ==
    IF IsNull(emailVal) \/ Val(emailVal) = <<>> THEN FALSE
    ELSE ToLowerCase(Val(emailVal)) \in ADMIN_EMAILS

\* Object.entries(row).filter(key !== 'email' && value).map({key.replace, String(value)})
deriveIdentifiers(row) ==
    LET keep(e) == e.key # KeyEmail /\ Truthy(e.value)
        item(e) == [key |-> ReplaceUnderscores(e.key), value |-> ToStr(e.value)]
    IN  [i \in DOMAIN SelectSeq(row, keep) |-> item(SelectSeq(row, keep)[i])]

\* validateEmail: the field error it leaves, None when the value passes
validateEmail(value) ==
    LET trimmed == Trim(value)
    IN  IF trimmed = <<>> THEN Some(EmailEmptyMsg)
        ELSE IF ~EmailPattern(trimmed) THEN Some(EmailInvalidMsg)
        ELSE None

\* validateCode: the field error it leaves, None when the value passes
validateCode(value) ==
    LET trimmed == Trim(value)
    IN  IF trimmed = <<>> THEN Some(CodeEmptyMsg)
        ELSE IF ~CodePattern(trimmed) THEN Some(CodeInvalidMsg)
        ELSE None

Init ==
    /\ step = "email"
    /\ email = <<>>
    /\ code = <<>>
    /\ sending = FALSE
    /\ verifying = FALSE
    /\ emailError = None
    /\ codeError = None
    /\ generalError = None
    /\ identifiers = <<>>
    /\ copiedKey = None
    /\ copyTimeout = None
    /\ currentUserEmail = None
    /\ isAdmin = FALSE
    /\ showAdmin = FALSE
    /\ adminRows = <<>>
    /\ adminColumns = <<>>
    /\ adminLoading = FALSE
    /\ adminError = None
    \* onMount has called supabase.auth.getUser() and awaits it
    /\ flights = SetToBag({Flight("onMount", "getUser", <<>>)})
    /\ adminFlights = EmptyBag
    /\ timers = {}
    \* the page component has no modal
    /\ modalOpen = FALSE
    /\ identifier = None
    /\ fetchingId = FALSE

(***************************************************************************)
(* What is on screen (the template's #if blocks).                          *)
(***************************************************************************)
EmailFormShown == step = "email"
CodeFormShown == step = "code"
SuccessShown == step = "success"
AdminToggleShown == SuccessShown /\ isAdmin
AdminViewShown == SuccessShown /\ isAdmin /\ showAdmin
MemberViewShown == SuccessShown /\ ~(isAdmin /\ showAdmin)
ErrorBannerShown == ~IsNull(generalError)

(***************************************************************************)
(* Typing into the bound inputs.                                           *)
(***************************************************************************)
TypeEmail(inputs) ==
    /\ EmailFormShown
    /\ \E v \in inputs : email' = v /\ v # email
    /\ UNCHANGED <<step, generalError, identifiers, code, sending, verifying,
                   emailError, codeError, copyVars, userVars, adminVars, flights>>
    /\ UNCHANGED modalVars

TypeCode(inputs) ==
    /\ CodeFormShown
    /\ \E v \in inputs : code' = v /\ v # code /\ Len(v) <= CodeMaxLength
    /\ UNCHANGED <<step, generalError, identifiers, email, sending, verifying,
                   emailError, codeError, copyVars, userVars, adminVars, flights>>
    /\ UNCHANGED modalVars

\* the values one more key press leaves in a field
EmailKeyed == IF Len(email) < MaxEmailLen THEN {Append(email, c) : c \in EmailKeys} ELSE {}
CodeKeyed == {Append(code, c) : c \in CodeKeys}

(***************************************************************************)
(* onMount: restore the session.                                           *)
(***************************************************************************)
onMount_getUser(f, ans) ==
    /\ f \in Awaiting("onMount", "getUser")
    /\ IF ans.kind = "user"
       THEN /\ currentUserEmail' = ans.email
            /\ isAdmin' = computeIsAdmin(ans.email)
            /\ flights' = Finished(f) (+) SetToBag({Flight("onMount", "row", ans.email)})
       ELSE /\ flights' = Finished(f)
            /\ UNCHANGED userVars
    /\ UNCHANGED <<step, generalError, identifiers, formVars, copyVars, adminVars>>
    /\ UNCHANGED modalVars

\* variant: the row failure is surfaced as in handleCodeSubmit
onMount_row_surfaced(f, ans) ==
    /\ f \in Awaiting("onMount", "row")
    /\ flights' = Finished(f)
    /\ IF ans.kind = "row"
       THEN /\ identifiers' = deriveIdentifiers(ans.row)
            /\ step' = IF deriveIdentifiers(ans.row) = <<>> THEN step ELSE "success"
            /\ UNCHANGED generalError
       ELSE /\ generalError' = Some(NoRowMsg)
            /\ UNCHANGED <<step, identifiers>>
    /\ UNCHANGED <<formVars, copyVars, userVars, adminVars>>
    /\ UNCHANGED modalVars

onMount_row(f, ans) ==
    /\ f \in Awaiting("onMount", "row")
    /\ flights' = Finished(f)
    /\ IF ans.kind = "row"
       THEN /\ identifiers' = deriveIdentifiers(ans.row)
            /\ step' = IF deriveIdentifiers(ans.row) = <<>> THEN step ELSE "success"
       ELSE UNCHANGED <<step, identifiers>>
    /\ UNCHANGED <<generalError, formVars, copyVars, userVars, adminVars>>
    /\ UNCHANGED modalVars

(***************************************************************************)
(* resetAll, and the buttons bound to it.                                  *)
(***************************************************************************)
\* variant: the admin view flag is flipped instead of cleared
resetAll_flipsAdmin ==
    /\ step' = "email"
    /\ email' = <<>>
    /\ code' = <<>>
    /\ sending' = FALSE
    /\ verifying' = FALSE
    /\ emailError' = None
    /\ codeError' = None
    /\ generalError' = None
    /\ identifiers' = <<>>
    /\ copiedKey' = None
    /\ showAdmin' = ~showAdmin
    /\ UNCHANGED <<copyTimeout, timers, userVars,
                   adminRows, adminColumns, adminLoading, adminError, adminFlights>>
    /\ UNCHANGED modalVars

resetAll ==
    /\ step' = "email"
    /\ email' = <<>>
    /\ code' = <<>>
    /\ sending' = FALSE
    /\ verifying' = FALSE
    /\ emailError' = None
    /\ codeError' = None
    /\ generalError' = None
    /\ identifiers' = <<>>
    /\ copiedKey' = None
    /\ showAdmin' = FALSE
    /\ UNCHANGED <<copyTimeout, timers, userVars,
                   adminRows, adminColumns, adminLoading, adminError, adminFlights>>
    /\ UNCHANGED modalVars

ClickReset ==
    /\ CodeFormShown \/ SuccessShown
    /\ resetAll
    /\ UNCHANGED flights

(***************************************************************************)
(* handleEmailSubmit.                                                      *)
(***************************************************************************)
handleEmailSubmit ==
    /\ EmailFormShown
    /\ ~sending
    /\ generalError' = None
    /\ emailError' = validateEmail(email)
    /\ IF IsNull(validateEmail(email))
       THEN /\ Pending < MaxFlights
            /\ sending' = TRUE
            /\ flights' = Started(Flight("handleEmailSubmit", "signInWithOtp", <<Trim(email)>>))
       ELSE UNCHANGED <<sending, flights>>
    /\ UNCHANGED <<step, identifiers, email, code, verifying, codeError,
                   copyVars, userVars, adminVars>>
    /\ UNCHANGED modalVars

\* variant: sending is cleared after the try block instead of in a finally
handleEmailSubmit_resume_noFinally(f, ans) ==
    /\ f \in Awaiting("handleEmailSubmit", "signInWithOtp")
    /\ flights' = Finished(f)
    /\ CASE ans.kind = "ok" ->
              /\ step' = "code"
              /\ sending' = FALSE
              /\ UNCHANGED generalError
         [] ans.kind = "error" ->
              /\ generalError' =
                    IF IsNull(ans.message) THEN Some(SendFallbackMsg) ELSE ans.message
              /\ UNCHANGED <<step, sending>>
         [] OTHER ->
              /\ generalError' = Some(SendThrownMsg)
              /\ sending' = FALSE
              /\ UNCHANGED step
    /\ UNCHANGED <<identifiers, email, code, verifying, emailError, codeError,
                   copyVars, userVars, adminVars>>
    /\ UNCHANGED modalVars

\* variant: no return after the provider's error
handleEmailSubmit_resume_noReturn(f, ans) ==
    /\ f \in Awaiting("handleEmailSubmit", "signInWithOtp")
    /\ flights' = Finished(f)
    /\ CASE ans.kind = "ok" ->
              /\ step' = "code"
              /\ UNCHANGED generalError
         [] ans.kind = "error" ->
              /\ generalError' =
                    IF IsNull(ans.message) THEN Some(SendFallbackMsg) ELSE ans.message
              /\ step' = "code"
         [] OTHER ->
              /\ generalError' = Some(SendThrownMsg)
              /\ UNCHANGED step
    /\ sending' = FALSE
    /\ UNCHANGED <<identifiers, email, code, verifying, emailError, codeError,
                   copyVars, userVars, adminVars>>
    /\ UNCHANGED modalVars

handleEmailSubmit_resume(f, ans) ==
    /\ f \in Awaiting("handleEmailSubmit", "signInWithOtp")
    /\ flights' = Finished(f)
    /\ CASE ans.kind = "ok" ->
              /\ step' = "code"
              /\ UNCHANGED generalError
         [] ans.kind = "error" ->
              /\ generalError' =
                    IF IsNull(ans.message) THEN Some(SendFallbackMsg) ELSE ans.message
              /\ UNCHANGED step
         [] OTHER ->
              /\ generalError' = Some(SendThrownMsg)
              /\ UNCHANGED step
    /\ sending' = FALSE
    /\ UNCHANGED <<identifiers, email, code, verifying, emailError, codeError,
                   copyVars, userVars, adminVars>>
    /\ UNCHANGED modalVars

(***************************************************************************)
(* handleCodeSubmit.                                                       *)
(***************************************************************************)
handleCodeSubmit ==
    /\ CodeFormShown
    /\ ~verifying
    /\ generalError' = None
    /\ codeError' = validateCode(code)
    /\ IF IsNull(validateCode(code))
       THEN /\ Pending < MaxFlights
            /\ verifying' = TRUE
            /\ flights' = Started(Flight("handleCodeSubmit", "verifyOtp",
                                         <<Trim(email), Trim(code)>>))
       ELSE UNCHANGED <<verifying, flights>>
    /\ UNCHANGED <<step, identifiers, email, code, sending, emailError,
                   copyVars, userVars, adminVars>>
    /\ UNCHANGED modalVars

\* variant: no return after the verification error
handleCodeSubmit_verified_noReturn(f, ans) ==
    /\ f \in Awaiting("handleCodeSubmit", "verifyOtp")
    /\ CASE ans.kind = "ok" ->
              /\ flights' = Finished(f) (+) SetToBag({Flight("handleCodeSubmit", "getUser", <<>>)})
              /\ UNCHANGED <<generalError, verifying>>
         [] ans.kind = "error" ->
              /\ flights' = Finished(f) (+) SetToBag({Flight("handleCodeSubmit", "getUser", <<>>)})
              /\ generalError' =
                    IF IsNull(ans.message) THEN Some(VerifyFallbackMsg) ELSE ans.message
              /\ UNCHANGED verifying
         [] OTHER ->
              /\ flights' = Finished(f)
              /\ generalError' = Some(VerifyThrownMsg)
              /\ verifying' = FALSE
    /\ UNCHANGED <<step, identifiers, email, code, sending, emailError, codeError,
                   copyVars, userVars, adminVars>>
    /\ UNCHANGED modalVars

handleCodeSubmit_verified(f, ans) ==
    /\ f \in Awaiting("handleCodeSubmit", "verifyOtp")
    /\ CASE ans.kind = "ok" ->
              /\ flights' = Finished(f) (+) SetToBag({Flight("handleCodeSubmit", "getUser", <<>>)})
              /\ UNCHANGED <<generalError, verifying>>
         [] ans.kind = "error" ->
              /\ flights' = Finished(f)
              /\ generalError' =
                    IF IsNull(ans.message) THEN Some(VerifyFallbackMsg) ELSE ans.message
              /\ verifying' = FALSE
         [] OTHER ->
              /\ flights' = Finished(f)
              /\ generalError' = Some(VerifyThrownMsg)
              /\ verifying' = FALSE
    /\ UNCHANGED <<step, identifiers, email, code, sending, emailError, codeError,
                   copyVars, userVars, adminVars>>
    /\ UNCHANGED modalVars

\* variant: the admin status is not refreshed with the user
handleCodeSubmit_user_staleAdmin(f, ans) ==
    /\ f \in Awaiting("handleCodeSubmit", "getUser")
    /\ IF ans.kind = "throw"
       THEN /\ flights' = Finished(f)
            /\ generalError' = Some(VerifyThrownMsg)
            /\ verifying' = FALSE
            /\ UNCHANGED currentUserEmail
       ELSE /\ currentUserEmail' = ans.email
            /\ flights' = Finished(f) (+) SetToBag({Flight("handleCodeSubmit", "row", ans.email)})
            /\ UNCHANGED <<generalError, verifying>>
    /\ UNCHANGED <<step, identifiers, email, code, sending, emailError, codeError,
                   copyVars, isAdmin, adminVars>>
    /\ UNCHANGED modalVars

handleCodeSubmit_user(f, ans) ==
    /\ f \in Awaiting("handleCodeSubmit", "getUser")
    /\ IF ans.kind = "throw"
       THEN /\ flights' = Finished(f)
            /\ generalError' = Some(VerifyThrownMsg)
            /\ verifying' = FALSE
            /\ UNCHANGED userVars
       ELSE \* userData?.user?.email ?? null
            /\ currentUserEmail' = ans.email
            /\ isAdmin' = computeIsAdmin(ans.email)
            /\ flights' = Finished(f) (+) SetToBag({Flight("handleCodeSubmit", "row", ans.email)})
            /\ UNCHANGED <<generalError, verifying>>
    /\ UNCHANGED <<step, identifiers, email, code, sending, emailError, codeError,
                   copyVars, adminVars>>
    /\ UNCHANGED modalVars

\* variant: no check of identifiers.length
handleCodeSubmit_row_noLengthCheck(f, ans) ==
    /\ f \in Awaiting("handleCodeSubmit", "row")
    /\ flights' = Finished(f)
    /\ CASE ans.kind = "row" ->
              /\ identifiers' = deriveIdentifiers(ans.row)
              /\ copiedKey' = None
              /\ step' = "success"
              /\ UNCHANGED generalError
         [] ans.kind \in {"norow", "error"} ->
              /\ generalError' = Some(NoRowMsg)
              /\ UNCHANGED <<step, identifiers, copiedKey>>
         [] OTHER ->
              /\ generalError' = Some(VerifyThrownMsg)
              /\ UNCHANGED <<step, identifiers, copiedKey>>
    /\ verifying' = FALSE
    /\ UNCHANGED <<email, code, sending, emailError, codeError,
                   copyTimeout, timers, userVars, adminVars>>
    /\ UNCHANGED modalVars

handleCodeSubmit_row(f, ans) ==
    /\ f \in Awaiting("handleCodeSubmit", "row")
    /\ flights' = Finished(f)
    /\ CASE ans.kind = "row" /\ deriveIdentifiers(ans.row) # <<>> ->
              /\ identifiers' = deriveIdentifiers(ans.row)
              /\ copiedKey' = None
              /\ step' = "success"
              /\ UNCHANGED generalError
         [] ans.kind = "row" /\ deriveIdentifiers(ans.row) = <<>> ->
              /\ identifiers' = deriveIdentifiers(ans.row)
              /\ generalError' = Some(NoIdentifiersMsg)
              /\ UNCHANGED <<step, copiedKey>>
         [] ans.kind \in {"norow", "error"} ->
              /\ generalError' = Some(NoRowMsg)
              /\ UNCHANGED <<step, identifiers, copiedKey>>
         [] OTHER ->
              /\ generalError' = Some(VerifyThrownMsg)
              /\ UNCHANGED <<step, identifiers, copiedKey>>
    /\ verifying' = FALSE
    /\ UNCHANGED <<email, code, sending, emailError, codeError,
                   copyTimeout, timers, userVars, adminVars>>
    /\ UNCHANGED modalVars


(***************************************************************************)
(* copyIdentifier and its clearance timer.                                 *)
(***************************************************************************)
TimerIds == 1 .. MaxTimers
FreeTimerIds(pending) == TimerIds \ {t.id : t \in pending}

\* variant: the pending callback is not cancelled
clearTimeout_skipped(pending, handle) == pending

\* clearTimeout(handle): a handle that already fired, or null, clears nothing
clearTimeout(pending, handle) ==
    IF IsNull(handle) THEN pending ELSE {t \in pending : t.id # Val(handle)}

copyIdentifier(item) ==
    /\ MemberViewShown
    /\ Pending < MaxFlights
    /\ flights' = Started(Flight("copyIdentifier", "writeText", <<item.key, item.value>>))
    /\ UNCHANGED <<step, generalError, identifiers, formVars, copyVars, userVars, adminVars>>
    /\ UNCHANGED modalVars

\* variant: the key is marked copied but no clearance is scheduled
copyIdentifier_resume_noTimer(f, ans) ==
    /\ f \in Awaiting("copyIdentifier", "writeText")
    /\ flights' = Finished(f)
    /\ IF ans = "ok"
       THEN /\ copiedKey' = Some(f.arg[1])
            /\ timers' = clearTimeout(timers, copyTimeout)
            /\ UNCHANGED copyTimeout
       ELSE UNCHANGED copyVars
    /\ UNCHANGED <<step, generalError, identifiers, formVars, userVars, adminVars>>
    /\ UNCHANGED modalVars

copyIdentifier_resume(f, ans) ==
    /\ f \in Awaiting("copyIdentifier", "writeText")
    /\ flights' = Finished(f)
    /\ IF ans = "ok"
       THEN LET kept == clearTimeout(timers, copyTimeout)
            IN  /\ FreeTimerIds(kept) # {}
                /\ copiedKey' = Some(f.arg[1])
                /\ copyTimeout' = Some(SetMin(FreeTimerIds(kept)))
                /\ timers' = kept \cup {[id |-> SetMin(FreeTimerIds(kept)), key |-> f.arg[1],
                                          superseded |-> {t.key : t \in timers \ kept}]}
       ELSE UNCHANGED copyVars
    /\ UNCHANGED <<step, generalError, identifiers, formVars, userVars, adminVars>>
    /\ UNCHANGED modalVars

\* the setTimeout callback: copiedKey = null
copyTimeoutFires(t) ==
    /\ t \in timers
    /\ timers' = timers \ {t}
    /\ copiedKey' = None
    /\ UNCHANGED <<step, generalError, identifiers, formVars, copyTimeout,
                   userVars, adminVars, flights>>
    /\ UNCHANGED modalVars

(***************************************************************************)
(* handleSignOut.                                                          *)
(***************************************************************************)
handleSignOut ==
    /\ SuccessShown
    /\ Pending < MaxFlights
    /\ flights' = Started(Flight("handleSignOut", "signOut", <<>>))
    /\ UNCHANGED <<step, generalError, identifiers, formVars, copyVars, userVars, adminVars>>
    /\ UNCHANGED modalVars

\* variant: no finally, the reset is skipped when signOut throws
handleSignOut_resume_noFinally(f, ans) ==
    /\ f \in Awaiting("handleSignOut", "signOut")
    /\ ans \in PlainAnswers
    /\ flights' = Finished(f)
    /\ IF ans = "throw"
       THEN UNCHANGED <<step, generalError, identifiers, formVars, copyVars, userVars, adminVars>>
       ELSE resetAll
    /\ UNCHANGED modalVars

handleSignOut_resume(f, ans) ==
    /\ f \in Awaiting("handleSignOut", "signOut")
    /\ ans \in PlainAnswers
    /\ flights' = Finished(f)
    /\ resetAll
    /\ UNCHANGED modalVars

(***************************************************************************)
(* Admin panel.                                                            *)
(***************************************************************************)
\* onConflict: the conflict key handed to upsert(adminRows, { onConflict: 'email' })
AdminFlight(op, rows) ==
    [op |-> op, rows |-> rows,
     onConflict |-> IF op = "saveAdmin" THEN Some(KeyEmail) ELSE None]
AdminAwaiting(op) == {f \in BagToSet(adminFlights) : f.op = op}

openAdmin ==
    /\ Pending < MaxFlights
    /\ adminError' = None
    /\ adminLoading' = TRUE
    /\ showAdmin' = TRUE
    \* the request carries nothing; the flight remembers the rows that were in
    \* memory when the load was requested
    /\ adminFlights' = adminFlights (+) SetToBag({AdminFlight("openAdmin", adminRows)})
    /\ UNCHANGED <<adminRows, adminColumns>>
    /\ UNCHANGED modalVars

toggleAdminView ==
    /\ AdminToggleShown
    /\ IF ~showAdmin
       THEN openAdmin
       ELSE /\ showAdmin' = FALSE
            /\ UNCHANGED <<adminRows, adminColumns, adminLoading, adminError, adminFlights>>
    /\ UNCHANGED <<step, generalError, identifiers, formVars, copyVars, userVars, flights>>
    /\ UNCHANGED modalVars

\* variant: the keys are not filtered
columnsOf_withEmail(first) == [i \in DOMAIN first |-> first[i].key]

\* Object.keys(first).filter((key) => key !== 'email')
columnsOf(first) ==
    LET keys == [i \in DOMAIN first |-> first[i].key]
    IN  SelectSeq(keys, LAMBDA k : k # KeyEmail)

openAdmin_resume(f, ans) ==
    /\ f \in AdminAwaiting("openAdmin")
    /\ adminFlights' = adminFlights (-) SetToBag({f})
    /\ CASE ans.kind \in {"rows", "nodata"} ->
              /\ adminRows' = ans.rows
              /\ adminColumns' = IF ans.rows # <<>> THEN columnsOf(ans.rows[1]) ELSE <<>>
              /\ UNCHANGED adminError
         [] ans.kind = "error" ->
              /\ adminError' = Some(AdminLoadFailedMsg)
              /\ UNCHANGED <<adminRows, adminColumns>>
         [] OTHER ->
              /\ adminError' = Some(AdminLoadThrownMsg)
              /\ UNCHANGED <<adminRows, adminColumns>>
    /\ adminLoading' = FALSE
    /\ UNCHANGED <<step, generalError, identifiers, formVars, copyVars, userVars,
                   showAdmin, flights>>
    /\ UNCHANGED modalVars

\* variant: the new row gets its email only, not the known columns
addAdminRow_emailOnly ==
    /\ AdminViewShown
    /\ Len(adminRows) < MaxAdminRows
    /\ adminRows' = Append(adminRows, <<Entry(KeyEmail, JsString(<<>>))>>)
    /\ UNCHANGED <<step, generalError, identifiers, formVars, copyVars, userVars,
                   showAdmin, adminColumns, adminLoading, adminError, adminFlights, flights>>
    /\ UNCHANGED modalVars

addAdminRow ==
    /\ AdminViewShown
    /\ Len(adminRows) < MaxAdminRows
    /\ LET base == <<Entry(KeyEmail, JsString(<<>>))>>
                   \o [i \in DOMAIN adminColumns |-> Entry(adminColumns[i], JsString(<<>>))]
       IN  adminRows' = Append(adminRows, base)
    /\ UNCHANGED <<step, generalError, identifiers, formVars, copyVars, userVars,
                   showAdmin, adminColumns, adminLoading, adminError, adminFlights, flights>>
    /\ UNCHANGED modalVars

\* bind:value={adminRows[i][col]}: assign the property, adding it when absent
setCell(row, k, v) ==
    IF \E j \in DOMAIN row : row[j].key = k
    THEN [j \in DOMAIN row |-> IF row[j].key = k THEN Entry(k, v) ELSE row[j]]
    ELSE Append(row, Entry(k, v))

EditAdminCell(i, k, v) ==
    /\ AdminViewShown
    /\ ~adminLoading
    /\ i \in DOMAIN adminRows
    /\ k = KeyEmail \/ \E j \in DOMAIN adminColumns : adminColumns[j] = k
    /\ adminRows' = [adminRows EXCEPT ![i] = setCell(adminRows[i], k, JsString(v))]
    /\ UNCHANGED <<step, generalError, identifiers, formVars, copyVars, userVars,
                   showAdmin, adminColumns, adminLoading, adminError, adminFlights, flights>>
    /\ UNCHANGED modalVars

saveAdmin ==
    /\ AdminViewShown
    /\ ~adminLoading
    /\ Pending < MaxFlights
    /\ adminError' = None
    /\ adminLoading' = TRUE
    /\ adminFlights' = adminFlights (+) SetToBag({AdminFlight("saveAdmin", adminRows)})
    /\ UNCHANGED <<step, generalError, identifiers, formVars, copyVars, userVars,
                   showAdmin, adminRows, adminColumns, flights>>
    /\ UNCHANGED modalVars

\* variant: the store's error is logged but not shown
saveAdmin_resume_errorNotShown(f, ans) ==
    /\ f \in AdminAwaiting("saveAdmin")
    /\ adminFlights' = adminFlights (-) SetToBag({f})
    /\ adminError' = CASE ans = "ok" -> adminError
                       [] ans = "error" -> adminError
                       [] OTHER -> Some(AdminSaveThrownMsg)
    /\ adminLoading' = FALSE
    /\ UNCHANGED <<step, generalError, identifiers, formVars, copyVars, userVars,
                   showAdmin, adminRows, adminColumns, flights>>
    /\ UNCHANGED modalVars

saveAdmin_resume(f, ans) ==
    /\ f \in AdminAwaiting("saveAdmin")
    /\ adminFlights' = adminFlights (-) SetToBag({f})
    /\ adminError' = CASE ans = "ok" -> adminError
                       [] ans = "error" -> Some(AdminSaveFailedMsg)
                       [] OTHER -> Some(AdminSaveThrownMsg)
    /\ adminLoading' = FALSE
    /\ UNCHANGED <<step, generalError, identifiers, formVars, copyVars, userVars,
                   showAdmin, adminRows, adminColumns, flights>>
    /\ UNCHANGED modalVars

(***************************************************************************)
(* Specifications.  Every one starts from Init and takes the same actions; *)
(* they differ in which handlers the environment exercises and in what it  *)
(* types and answers.                                                      *)
(***************************************************************************)
Anonymous == {a \in UserAnswers : a.kind # "user"}
FlowRowAnswers == RowAnswersOf(StoreRows \ {RowTwo})
GateRowAnswers == {a \in RowAnswersOf({RowPlan}) : a.kind \in {"row", "error"}}
GateTableAnswers == {a \in TableAnswersOf({<<RowPlan>>}) : a.kind \in {"rows", "error"}}
CopyUsers == {a \in UserAnswers : a.kind = "throw" \/ a.email = Some(MemberAddress)}
CopyRowAnswers == {a \in RowAnswersOf({RowEmailOnly, RowTwo}) : a.kind = "row"}
OkOrThrow(answers) == {a \in answers : a.kind \in {"ok", "throw"}}

Restore(users, rows) ==
    \/ \E f \in BagToSet(flights), ans \in users : onMount_getUser(f, ans)
    \/ \E f \in BagToSet(flights), ans \in rows : onMount_row(f, ans)

EmailForm(inputs, sends) ==
    \/ TypeEmail(inputs)
    \/ handleEmailSubmit
    \/ \E f \in BagToSet(flights), ans \in sends : handleEmailSubmit_resume(f, ans)

CodeForm(inputs, verifies, users, rows) ==
    \/ TypeCode(inputs)
    \/ handleCodeSubmit
    \/ \E f \in BagToSet(flights), ans \in verifies : handleCodeSubmit_verified(f, ans)
    \/ \E f \in BagToSet(flights), ans \in users : handleCodeSubmit_user(f, ans)
    \/ \E f \in BagToSet(flights), ans \in rows : handleCodeSubmit_row(f, ans)

Leave ==
    \/ ClickReset
    \/ handleSignOut
    \/ \E f \in BagToSet(flights), ans \in PlainAnswers : handleSignOut_resume(f, ans)

Copy ==
    \/ \E i \in DOMAIN identifiers : copyIdentifier(identifiers[i])
    \/ \E f \in BagToSet(flights), ans \in PlainAnswers : copyIdentifier_resume(f, ans)

TimerFires == \E t \in timers : copyTimeoutFires(t)

AdminToggle(tables) ==
    \/ toggleAdminView
    \/ \E f \in BagToSet(adminFlights), ans \in tables : openAdmin_resume(f, ans)

AdminRowsEdit(cells) ==
    \/ addAdminRow
    \/ \E i \in 1 .. MaxAdminRows, k \in {KeyEmail, KeyPlanId, KeyGroupNo}, v \in cells :
          EditAdminCell(i, k, v)

AdminEdit ==
    \/ addAdminRow
    \/ \E i \in 1 .. MaxAdminRows, k \in {KeyEmail, KeyPlanId, KeyGroupNo}, v \in CellInputs :
          EditAdminCell(i, k, v)
    \/ saveAdmin
    \/ \E f \in BagToSet(adminFlights), ans \in PlainAnswers : saveAdmin_resume(f, ans)

\* every handler, with what is pasted into the fields
Next ==
    \/ Restore(UserAnswers, RowAnswers)
    \/ EmailForm(EmailInputs, SendAnswers)
    \/ CodeForm(CodeInputs, VerifyAnswers, UserAnswers, RowAnswers)
    \/ Leave
    \/ Copy
    \/ TimerFires
    \/ AdminToggle(TableAnswers)
    \/ AdminEdit

Spec == Init /\ [][Next]_vars

\* the sign-in flow
FlowNext ==
    \/ Restore(UserAnswers, FlowRowAnswers)
    \/ EmailForm(EmailInputs, SendAnswers)
    \/ CodeForm(CodeInputs, VerifyAnswers, UserAnswers, FlowRowAnswers)
    \/ Leave

SpecFlow == Init /\ [][FlowNext]_vars

\* the requests of the two forms settle: each awaited call resolves or throws
SendSettles ==
    \E f \in BagToSet(flights), ans \in SendAnswers : handleEmailSubmit_resume(f, ans)
VerifySettles ==
    \/ \E f \in BagToSet(flights), ans \in VerifyAnswers : handleCodeSubmit_verified(f, ans)
    \/ \E f \in BagToSet(flights), ans \in UserAnswers : handleCodeSubmit_user(f, ans)
    \/ \E f \in BagToSet(flights), ans \in FlowRowAnswers : handleCodeSubmit_row(f, ans)
FairSpecFlow == SpecFlow /\ WF_vars(SendSettles) /\ WF_vars(VerifySettles)

\* the sign-in flow of admins and members with the admin toggle
GateNext ==
    \/ Restore(UserAnswers, GateRowAnswers)
    \/ EmailForm(EmailInputs, OkOrThrow(SendAnswers))
    \/ CodeForm(CodeInputs, OkOrThrow(VerifyAnswers), UserAnswers, GateRowAnswers)
    \/ Leave
    \/ AdminToggle(GateTableAnswers)

SpecGate == Init /\ [][GateNext]_vars

\* the provider's signOut settles: it resolves or throws
SignOutSettles ==
    \E f \in BagToSet(flights), ans \in PlainAnswers : handleSignOut_resume(f, ans)
FairSpecGate == SpecGate /\ WF_vars(SignOutSettles)

\* an admin whose session is restored, with the admin table and its cells
AdminUsers == {a \in UserAnswers : a.email = Some(AdminAddress)}
AdminRowAnswers == {a \in RowAnswersOf({RowPlan}) : a.kind = "row"}
AdminTables == {<<RowPlan>>, <<RowTwo, RowPlan>>}
\* the admin waits for the table to load before using the toggle again
PatientToggle(tables) ==
    \/ adminFlights = EmptyBag /\ toggleAdminView
    \/ \E f \in BagToSet(adminFlights), ans \in tables : openAdmin_resume(f, ans)
AdminRowsNext ==
    \/ Restore(AdminUsers, AdminRowAnswers)
    \/ PatientToggle(TableAnswersOf(AdminTables))
    \/ AdminRowsEdit(CellInputs)

SpecAdminRows == Init /\ [][AdminRowsNext]_vars

\* the same admin with the 'Save changes' button
AdminSave ==
    \/ saveAdmin
    \/ \E f \in BagToSet(adminFlights), ans \in PlainAnswers : saveAdmin_resume(f, ans)
AdminSaveNext ==
    \/ AdminRowsNext
    \/ AdminSave

SpecAdminSave == Init /\ [][AdminSaveNext]_vars

\* the sign-in flow of a member with the copy buttons of a two-identifier row
CopyNext ==
    \/ Restore(CopyUsers, CopyRowAnswers)
    \/ EmailForm(EmailInputs, OkOrThrow(SendAnswers))
    \/ CodeForm(CodeInputs, OkOrThrow(VerifyAnswers), CopyUsers, CopyRowAnswers)
    \/ Leave
    \/ Copy
    \/ TimerFires

SpecCopy == Init /\ [][CopyNext]_vars

\* the event loop runs a due timer callback
FairSpecCopy == SpecCopy /\ WF_vars(TimerFires)

\* an anonymous visitor typing the email key by key
EmailFieldNext ==
    \/ \E f \in BagToSet(flights), ans \in Anonymous : onMount_getUser(f, ans)
    \/ EmailForm(EmailKeyed, SendAnswers)
    \/ ClickReset

SpecEmailField == Init /\ [][EmailFieldNext]_vars

\* an anonymous visitor typing the code key by key
CodeFieldNext ==
    \/ \E f \in BagToSet(flights), ans \in Anonymous : onMount_getUser(f, ans)
    \/ EmailForm(EmailInputs, SendAnswers)
    \/ CodeForm(CodeKeyed, VerifyAnswers, UserAnswers, RowAnswersOf({}))
    \/ ClickReset

SpecCodeField == Init /\ [][CodeFieldNext]_vars

(***************************************************************************)
(* The modal variant (routes/+page.svelte): the same two forms inside a    *)
(* dialog that the page opens and closes.  It shares the names of the      *)
(* form state and has no session restore, copy feedback or admin panel.    *)
(***************************************************************************)
pageOnlyVars == <<identifiers, copyVars, userVars, adminVars>>

KeyEscape == "Escape"

ModalEmailInputs == {PaddedAddress, <<"a">>}
ModalCodeInputs == {GoodCode, <<"1">>}

\* what .single() on approved_user_info resolves to: the row's
\* insurance_number, a rowError, or a rejection
ModalRowAnswers == {[kind |-> "row", insurance_number |-> v] :
                          v \in {JsString(<<"X", "1">>), JsString(<<>>), JsNull}}
                       \cup {[kind |-> "error", insurance_number |-> JsNull],
                             [kind |-> "throw", insurance_number |-> JsNull]}

\* the script's initial values; onMount does nothing
ModalInit ==
    /\ modalOpen = FALSE
    /\ step = "idle"
    /\ email = <<>>
    /\ code = <<>>
    /\ identifier = None
    /\ sending = FALSE
    /\ verifying = FALSE
    /\ fetchingId = FALSE
    /\ emailError = None
    /\ codeError = None
    /\ generalError = None
    /\ flights = EmptyBag
    \* not part of this component
    /\ identifiers = <<>>
    /\ copiedKey = None
    /\ copyTimeout = None
    /\ timers = {}
    /\ currentUserEmail = None
    /\ isAdmin = FALSE
    /\ showAdmin = FALSE
    /\ adminRows = <<>>
    /\ adminColumns = <<>>
    /\ adminLoading = FALSE
    /\ adminError = None
    /\ adminFlights = EmptyBag

ModalEmailFormShown == modalOpen /\ step \in {"email", "idle"}
ModalCodeFormShown == modalOpen /\ step = "code"

modal_TypeEmail(inputs) ==
    /\ ModalEmailFormShown
    /\ \E v \in inputs : email' = v /\ v # email
    /\ UNCHANGED <<step, generalError, code, sending, verifying, emailError, codeError,
                   flights, modalVars, pageOnlyVars>>

modal_TypeCode(inputs) ==
    /\ ModalCodeFormShown
    /\ \E v \in inputs : code' = v /\ v # code /\ Len(v) <= CodeMaxLength
    /\ UNCHANGED <<step, generalError, email, sending, verifying, emailError, codeError,
                   flights, modalVars, pageOnlyVars>>

\* the "Get started" button; it keeps the focus while the dialog is open
openModal ==
    /\ modalOpen' = TRUE
    /\ generalError' = None
    /\ emailError' = None
    /\ codeError' = None
    /\ step' = "email"
    /\ email' = <<>>
    /\ code' = <<>>
    /\ identifier' = None
    /\ UNCHANGED <<sending, verifying, fetchingId, flights, pageOnlyVars>>

\* variant: the dialog closes whether or not a request is running
closeModal_noGuard ==
    /\ modalOpen' = FALSE
    /\ step' = "idle"
    /\ UNCHANGED <<email, code, identifier, sending, verifying, fetchingId,
                   emailError, codeError, generalError, flights, pageOnlyVars>>

closeModal ==
    IF sending \/ verifying \/ fetchingId
    THEN UNCHANGED vars
    ELSE /\ modalOpen' = FALSE
         /\ step' = "idle"
         /\ UNCHANGED <<email, code, identifier, sending, verifying, fetchingId,
                        emailError, codeError, generalError, flights, pageOnlyVars>>

\* the overlay, the close button and the success pane's Close button
ClickClose ==
    /\ modalOpen
    /\ closeModal

handleKeydown(key) ==
    IF ~modalOpen THEN UNCHANGED vars
    ELSE IF key = KeyEscape THEN closeModal
    ELSE UNCHANGED vars

modal_validateEmail(value) ==
    LET trimmed == Trim(value)
    IN  IF trimmed = <<>> THEN Some(EmailEmptyMsg)
        ELSE IF ~EmailPattern(trimmed) THEN Some(EmailInvalidMsg)
        ELSE None

modal_validateCode(value) ==
    LET trimmed == Trim(value)
    IN  IF trimmed = <<>> THEN Some(CodeEmptyMsg)
        ELSE IF ~CodePattern(trimmed) THEN Some(CodeInvalidMsg)
        ELSE None

modal_handleEmailSubmit ==
    /\ ModalEmailFormShown
    /\ ~sending
    /\ generalError' = None
    /\ emailError' = modal_validateEmail(email)
    /\ IF IsNull(modal_validateEmail(email))
       THEN /\ Pending < MaxFlights
            /\ sending' = TRUE
            /\ flights' = Started(Flight("handleEmailSubmit", "request-otp", <<Trim(email)>>))
       ELSE UNCHANGED <<sending, flights>>
    /\ UNCHANGED <<step, email, code, verifying, codeError, modalVars, pageOnlyVars>>

modal_handleEmailSubmit_resume(f, ans) ==
    /\ f \in Awaiting("handleEmailSubmit", "request-otp")
    /\ flights' = Finished(f)
    /\ CASE ans.kind = "ok" ->
              /\ step' = "code"
              /\ UNCHANGED generalError
         [] ans.kind = "error" ->
              /\ generalError' =
                    IF IsNull(ans.message) THEN Some(SendFallbackMsg) ELSE ans.message
              /\ UNCHANGED step
         [] OTHER ->
              /\ generalError' = Some(SendThrownMsg)
              /\ UNCHANGED step
    /\ sending' = FALSE
    /\ UNCHANGED <<email, code, verifying, emailError, codeError, modalVars, pageOnlyVars>>

modal_handleCodeSubmit ==
    /\ ModalCodeFormShown
    /\ ~verifying
    /\ generalError' = None
    /\ codeError' = modal_validateCode(code)
    /\ IF IsNull(modal_validateCode(code))
       THEN /\ Pending < MaxFlights
            /\ verifying' = TRUE
            /\ fetchingId' = TRUE
            /\ flights' = Started(Flight("handleCodeSubmit", "verify-otp",
                                         <<Trim(email), Trim(code)>>))
       ELSE UNCHANGED <<verifying, fetchingId, flights>>
    /\ UNCHANGED <<step, email, code, sending, emailError, modalOpen, identifier,
                   pageOnlyVars>>

\* the verify-otp function has answered
modal_handleCodeSubmit_verified(f, ans) ==
    /\ f \in Awaiting("handleCodeSubmit", "verify-otp")
    /\ CASE ans.kind = "ok" ->
              /\ flights' = Finished(f) (+) SetToBag({Flight("handleCodeSubmit", "row", f.arg)})
              /\ UNCHANGED <<generalError, verifying, fetchingId>>
         [] ans.kind = "error" ->
              /\ flights' = Finished(f)
              /\ generalError' =
                    IF IsNull(ans.message) THEN Some("Invalid or expired code. Please try again.") ELSE ans.message
              /\ verifying' = FALSE
              /\ fetchingId' = FALSE
         [] OTHER ->
              /\ flights' = Finished(f)
              /\ generalError' = Some("Something went wrong while verifying your code.")
              /\ verifying' = FALSE
              /\ fetchingId' = FALSE
    /\ UNCHANGED <<step, email, code, sending, emailError, codeError, modalOpen, identifier,
                   pageOnlyVars>>

\* the row fetch has answered
modal_handleCodeSubmit_row(f, ans) ==
    /\ f \in Awaiting("handleCodeSubmit", "row")
    /\ flights' = Finished(f)
    /\ CASE ans.kind = "row" ->
              \* identifier = row.insurance_number ?? null
              /\ identifier' = IF ans.insurance_number = JsNull THEN None
                               ELSE Some(ans.insurance_number)
              /\ IF ans.insurance_number = JsNull \/ ~Truthy(ans.insurance_number)
                 THEN /\ generalError' = Some("We were unable to retrieve your identifier. Please contact support.")
                      /\ UNCHANGED step
                 ELSE /\ step' = "success"
                      /\ UNCHANGED generalError
         [] ans.kind = "error" ->
              /\ generalError' = Some("Unable to load your insurance info.")
              /\ UNCHANGED <<step, identifier>>
         [] OTHER ->
              /\ generalError' = Some("Something went wrong while verifying your code.")
              /\ UNCHANGED <<step, identifier>>
    /\ verifying' = FALSE
    /\ fetchingId' = FALSE
    /\ UNCHANGED <<email, code, sending, emailError, codeError, modalOpen, pageOnlyVars>>

\* "Use a different email or request a new code"
UseDifferentEmail ==
    /\ ModalCodeFormShown
    /\ step' = "email"
    /\ code' = <<>>
    /\ codeError' = None
    /\ UNCHANGED <<email, sending, verifying, emailError, generalError, flights,
                   modalVars, pageOnlyVars>>

ModalEmailForm ==
    \/ modal_TypeEmail(ModalEmailInputs)
    \/ modal_handleEmailSubmit
    \/ \E f \in BagToSet(flights), ans \in SendAnswers : modal_handleEmailSubmit_resume(f, ans)

ModalCodeForm ==
    \/ modal_TypeCode(ModalCodeInputs)
    \/ modal_handleCodeSubmit
    \/ \E f \in BagToSet(flights), ans \in VerifyAnswers : modal_handleCodeSubmit_verified(f, ans)
    \/ \E f \in BagToSet(flights), ans \in ModalRowAnswers : modal_handleCodeSubmit_row(f, ans)
    \/ UseDifferentEmail

ModalNext ==
    \/ openModal
    \/ ClickClose
    \/ \E key \in {KeyEscape, "Enter"} : handleKeydown(key)
    \/ ModalEmailForm
    \/ ModalCodeForm

SpecModal == ModalInit /\ [][ModalNext]_vars

(***************************************************************************)
(* Properties.                                                             *)
(***************************************************************************)
\* an await of handler op is resumed by this step
Resumed(op) ==
    \E f \in BagToSet(flights) : f.op = op /\ CopiesIn(f, flights') < CopiesIn(f, flights)
\* this step puts a request of handler op in flight
Issued(op) ==
    \E f \in BagToSet(flights') : f.op = op /\ CopiesIn(f, flights') > CopiesIn(f, flights)

\* C1: a handleCodeSubmit request that completes after the user went back to
\* the email step (resetAll ran while it was in flight) is ignored: the step
\* stays 'email', and identifiers and generalError keep their values.
C1_StaleCompletionIgnored ==
    [][(step = "email" /\ Resumed("handleCodeSubmit"))
         => (step' = "email" /\ identifiers' = identifiers /\ generalError' = generalError)]_vars

\* C2: in every reachable state, step = 'success' implies that the identifier
\* list is not empty.
C2_SuccessHasIdentifiers == step = "success" => identifiers # <<>>

\* C3: for every code that after trimming is not exactly 6 decimal digits,
\* handleCodeSubmit leaves step = 'code', sets codeError, does not set the
\* verifying flag and puts no request in flight.
SixDigitsAfterTrim(s) ==
    \E a, b \in DOMAIN s :
        /\ b - a + 1 = 6
        /\ \A k \in a .. b : s[k] \in Digits
        /\ \A k \in DOMAIN s \ (a .. b) : s[k] \in WhiteSpace
C3_BadCodeRejected ==
    [][(handleCodeSubmit /\ ~SixDigitsAfterTrim(code))
         => /\ step' = "code"
            /\ ~IsNull(codeError')
            /\ ~verifying'
            /\ flights' = flights
            /\ adminFlights' = adminFlights]_vars
\* a five-digit code with a letter was submitted and rejected
C3_Witness ==
    /\ step = "code"
    /\ code = <<"1", "1", "x", "1", "1", "1">>
    /\ codeError = Some(CodeInvalidMsg)
    /\ ~verifying
    /\ Awaiting("handleCodeSubmit", "verifyOtp") = {}

\* C4: for every email that after trimming is empty or not of the shape
\* local@domain.tld, handleEmailSubmit leaves step = 'email', sets emailError
\* and issues no request; for every well-formed email it clears emailError and
\* issues exactly one send-one-time-code request with the trimmed address.
IsTrimOf(t, s) ==
    \E a \in 0 .. Len(s) :
        /\ a + Len(t) <= Len(s)
        /\ \A k \in 1 .. Len(t) : t[k] = s[a + k]
        /\ \A k \in (1 .. a) \cup ((a + Len(t) + 1) .. Len(s)) : s[k] \in WhiteSpace
        /\ t # <<>> => (t[1] \notin WhiteSpace /\ t[Len(t)] \notin WhiteSpace)
HasShape(t) ==
    \E i, j \in DOMAIN t :
        /\ 1 < i /\ i + 1 < j /\ j < Len(t)
        /\ t[i] = "@" /\ t[j] = "."
        /\ \A k \in DOMAIN t \ {i} : t[k] \notin WhiteSpace /\ t[k] # "@"
Pieces(s) == {<<>>} \cup {SubSeq(s, a, b) : a, b \in DOMAIN s}
WellFormedEmail(s) == \E t \in Pieces(s) : IsTrimOf(t, s) /\ HasShape(t)
C4_EmailValidated ==
    [][handleEmailSubmit
         => IF WellFormedEmail(email)
            THEN /\ IsNull(emailError')
                 /\ \E t \in Pieces(email) :
                       /\ IsTrimOf(t, email)
                       /\ flights' = flights (+) SetToBag(
                              {Flight("handleEmailSubmit", "signInWithOtp", <<t>>)})
            ELSE /\ step' = "email"
                 /\ ~IsNull(emailError')
                 /\ flights' = flights
                 /\ adminFlights' = adminFlights]_vars
\* a padded well-formed address was submitted and the request carries it trimmed
C4_Witness ==
    /\ email = <<" ", "a", "@", "a", ".", "a">>
    /\ IsNull(emailError)
    /\ sending
    /\ Awaiting("handleEmailSubmit", "signInWithOtp")
          = {Flight("handleEmailSubmit", "signInWithOtp", <<(<<"a", "@", "a", ".", "a">>)>>)}

\* C5: when the verification succeeded but the row fetch fails, or the row has
\* no non-empty column other than email, handleCodeSubmit leaves the step
\* where it is ('code') and shows a generalError; for such a row identifiers
\* = [] and the error is 'No identifiers available for this user.'.
EmptyValue(v) == v.t = "null" \/ (v.t = "string" /\ v.s = <<>>)
NoUsableColumn(row) ==
    \A i \in DOMAIN row : row[i].key = KeyEmail \/ EmptyValue(row[i].value)
C5_DatalessStaysInCode ==
    [][\A f \in Awaiting("handleCodeSubmit", "row"), ans \in RowAnswers :
          (/\ CopiesIn(f, flights') < CopiesIn(f, flights)
           /\ handleCodeSubmit_row(f, ans)
           /\ ans.kind = "row" => NoUsableColumn(ans.row))
          => /\ step' = step
             /\ ~IsNull(generalError')
             /\ ans.kind = "row" =>
                   (identifiers' = <<>> /\ generalError' = Some(NoIdentifiersMsg))]_vars
\* a verified account without identifiers is held in the code step
C5_Witness ==
    /\ step = "code"
    /\ generalError = Some(NoIdentifiersMsg)
    /\ identifiers = <<>>
    /\ ~verifying

\* C6: when the Identity Provider rejects the code, handleCodeSubmit leaves
\* the step where it is ('code'), sets generalError and goes no further: no
\* getUser, no change of currentUserEmail and isAdmin, no row fetch, no
\* change of identifiers.
C6_RejectedCodeStops ==
    [][\A f \in Awaiting("handleCodeSubmit", "verifyOtp"), ans \in VerifyAnswers :
          (/\ ans.kind = "error"
           /\ CopiesIn(f, flights') < CopiesIn(f, flights)
           /\ handleCodeSubmit_verified(f, ans))
          => /\ step' = step
             /\ ~IsNull(generalError')
             /\ ~Issued("handleCodeSubmit")
             /\ BagCardinality(flights') = BagCardinality(flights) - 1
             /\ currentUserEmail' = currentUserEmail
             /\ isAdmin' = isAdmin
             /\ identifiers' = identifiers]_vars
\* the provider's rejection is shown in the code step and nothing is pending
C6_Witness ==
    /\ step = "code"
    /\ generalError = Some(VerifyMessage)
    /\ ~verifying
    /\ Pending = 0

\* C7: no step of the session restore surfaces an error: generalError,
\* emailError and codeError are left as they are (null at startup), and the
\* step is left as it is unless the session exists, its row was fetched and
\* at least one identifier was derived, in which case it becomes 'success'.
C7_RestoreIsSilent ==
    [][Resumed("onMount")
         => /\ generalError' = generalError
            /\ emailError' = emailError
            /\ codeError' = codeError
            /\ \/ step' = step
               \/ /\ step' = "success"
                  /\ identifiers' # <<>>
                  /\ Awaiting("onMount", "row") # {}
                  /\ \E r \in StoreRows : identifiers' = deriveIdentifiers(r)]_vars
\* the restore found a session whose row could not be used, and showed nothing
C7_Witness ==
    /\ step = "email"
    /\ ~IsNull(currentUserEmail)
    /\ Pending = 0
    /\ email = <<>>
    /\ IsNull(generalError) /\ IsNull(emailError) /\ IsNull(codeError)
    /\ identifiers = <<>>

\* C8: in every reachable state the admin toggle and the admin view are on
\* screen only when step = 'success' and the address of the signed-in user,
\* lower-cased, is in ADMIN_EMAILS, whatever showAdmin is.
C8_AdminOnlyForAllowList ==
    (AdminToggleShown \/ AdminViewShown)
        => /\ step = "success"
           /\ ~IsNull(currentUserEmail)
           /\ ToLowerCase(Val(currentUserEmail)) \in ADMIN_EMAILS
\* a member is on the success step while showAdmin is left set by an admin
C8_Witness ==
    /\ step = "success"
    /\ showAdmin
    /\ currentUserEmail = Some(MemberAddress)
    /\ ~AdminToggleShown /\ ~AdminViewShown

\* C9: at most one clearance timer is pending; a copy that succeeds marks its
\* own key as copied and leaves exactly one pending timer, its own, to which
\* copyTimeout refers: the timer of an earlier copy is cancelled.
C9_OneClearancePending ==
    [][/\ Cardinality(timers') <= 1
       /\ \A f \in BagToSet(flights) :
             copyIdentifier_resume(f, "ok")
             => /\ copiedKey' = Some(f.arg[1])
                /\ \E t \in timers' :
                      /\ timers' = {t}
                      /\ t.key = f.arg[1]
                      /\ copyTimeout' = Some(t.id)]_vars
\* a second key was copied while the clearance of the first was pending
C9_Witness ==
    \E t \in timers :
        /\ t.superseded # {}
        /\ t.key \notin t.superseded
        /\ timers = {t}
        /\ copiedKey = Some(t.key)

\* C10: copiedKey never stays set forever: once a key is marked as copied,
\* copiedKey eventually becomes null again.
C10_CopiedEventuallyCleared == (~IsNull(copiedKey)) ~> IsNull(copiedKey)
\* a key is marked as copied and its clearance is pending
C10_Witness ==
    /\ ~IsNull(copiedKey)
    /\ \E t \in timers : t.key = Val(copiedKey) /\ copyTimeout = Some(t.id)

\* a step that runs resetAll: one of the two buttons bound to it, or the end
\* of handleSignOut
ResetStep ==
    \/ ClickReset
    \/ \E f \in BagToSet(flights), ans \in PlainAnswers : handleSignOut_resume(f, ans)

\* C11: resetAll clears the clearance timer of the copy state: right after it
\* no clearance timer is pending, so that none scheduled before the reset
\* fires after it.
C11_ResetClearsTimer == [][ResetStep => timers' = {}]_vars

\* C12: from any reachable state resetAll yields step = 'email' with the
\* inputs empty, every error (emailError, codeError, generalError, adminError)
\* null, every busy flag (sending, verifying, adminLoading) false, identifiers
\* empty, copiedKey null and showAdmin false, and it issues no request to the
\* Identity Provider, the Record Store or the clipboard.
C12_ResetClearsTransientState ==
    [][ResetStep
         => /\ step' = "email"
            /\ email' = <<>> /\ code' = <<>>
            /\ IsNull(emailError') /\ IsNull(codeError')
            /\ IsNull(generalError') /\ IsNull(adminError')
            /\ ~sending' /\ ~verifying' /\ ~adminLoading'
            /\ identifiers' = <<>>
            /\ IsNull(copiedKey')
            /\ ~showAdmin'
            /\ \A g \in BagToSet(flights') : CopiesIn(g, flights') <= CopiesIn(g, flights)
            /\ adminFlights' = adminFlights]_vars

\* resetAll, run in this state, would change nothing
ResetChangesNothing == ENABLED (resetAll /\ UNCHANGED vars)

\* C13: resetAll is idempotent: the state a reset leaves is one that a second
\* reset leaves as it is, so that reset(); reset() gives the state of one
\* reset().
C13_ResetIdempotent == [][ResetStep => ResetChangesNothing']_vars
\* an admin signed out twice: the first sign-out has reset the page and the
\* second is about to reset it again
C13_Witness ==
    /\ step = "email"
    /\ ~showAdmin
    /\ isAdmin
    /\ adminRows # <<>>
    /\ Awaiting("handleSignOut", "signOut") # {}

\* C14: handleSignOut always ends in resetAll: whether the provider's signOut
\* succeeds, returns an error or throws, the step that ends it leaves step =
\* 'email', identifiers empty, showAdmin false and generalError null, and a
\* sign-out that was started is ended.
SignedOut ==
    /\ step = "email"
    /\ identifiers = <<>>
    /\ ~showAdmin
    /\ IsNull(generalError)
C14_SignOutEndsInReset ==
    /\ [][Resumed("handleSignOut") => SignedOut']_vars
    /\ (Awaiting("handleSignOut", "signOut") # {}) ~> SignedOut
\* an admin who had the table on screen is back at the empty email form
C14_Witness ==
    /\ SignedOut
    /\ isAdmin
    /\ adminRows # <<>>
    /\ ~IsNull(currentUserEmail)
    /\ Pending = 0

\* handler op has no await pending after this step
Completed(op) == Resumed(op) /\ ~Issued(op)

\* C15: every handleEmailSubmit and handleCodeSubmit that passed validation
\* clears its busy flag whatever the outcome of its requests: the step that
\* completes it leaves sending (verifying) false, and a flag that is set is
\* eventually cleared.
C15_BusyFlagCleared ==
    /\ [][/\ Completed("handleEmailSubmit") => ~sending'
          /\ Completed("handleCodeSubmit") => ~verifying']_vars
    /\ sending ~> ~sending
    /\ verifying ~> ~verifying
\* the send was refused and the form is usable again
C15_Witness ==
    /\ step = "email"
    /\ generalError = Some(ProviderMessage)
    /\ ~sending
    /\ email = PaddedAddress
    /\ Pending = 0

\* requests of the user's actions (not of the page load) that are outstanding
UserRequests ==
    BagCardinality(adminFlights)
    + BagCardinality([f \in {g \in BagToSet(flights) : g.op # "onMount"} |-> CopiesIn(f, flights)])

\* C16: at most one request of a user action (email send, code verification
\* and row fetch, admin load, admin save, sign-out) is outstanding at any
\* time: an action is awaited to completion before another one that issues a
\* request can start.
C16_OneRequestAtATime == UserRequests <= 1

\* rows that differ from every answer of the Record Store: they hold edits
\* made in memory (SpecAdminRows never saves them)
Unsaved(rows) == rows # <<>> /\ rows \notin StoreTables

\* C17: unsaved edits of the admin table do not survive hiding the view: when
\* the view was hidden and is opened again with edited or added rows in
\* memory, the rows on screen once the load has ended are not those rows; and
\* hiding the view issues no request.
C17_HiddenEditsDiscarded ==
    [][/\ \A f \in AdminAwaiting("openAdmin"), ans \in TableAnswers :
             (/\ Unsaved(f.rows)
              /\ openAdmin_resume(f, ans)
              /\ AdminViewShown')
             => adminRows' # f.rows
       /\ (showAdmin /\ toggleAdminView)
             => (adminFlights' = adminFlights /\ flights' = flights)]_vars

\* C18: handleEmailSubmit with a valid email moves the step to 'code' if and
\* only if the send-one-time-code request succeeds: on the provider's error
\* or an exception the step stays where it is ('email') and generalError is
\* set; and no other operation ever moves the step to 'code': a step that
\* does is the success of a send request for a well-formed address.
C18_CodeStepOnlyAfterSend ==
    [][/\ \A f \in Awaiting("handleEmailSubmit", "signInWithOtp"), ans \in SendAnswers :
             (/\ CopiesIn(f, flights') < CopiesIn(f, flights)
              /\ handleEmailSubmit_resume(f, ans))
             => IF ans.kind = "ok"
                THEN step' = "code"
                ELSE step' = step /\ ~IsNull(generalError')
       /\ (step # "code" /\ step' = "code")
             => \E f \in Awaiting("handleEmailSubmit", "signInWithOtp") :
                   /\ WellFormedEmail(f.arg[1])
                   /\ handleEmailSubmit_resume(f, [kind |-> "ok", message |-> None])]_vars
\* the code was sent to the typed address and the code form is on screen
C18_Witness ==
    /\ step = "code"
    /\ email = PaddedAddress
    /\ IsNull(generalError)
    /\ ~sending
    /\ Awaiting("handleEmailSubmit", "signInWithOtp") = {}

\* the value of column k in a row, as a set: empty when the row has no such column
Cell(row, k) == {row[j].value : j \in {i \in DOMAIN row : row[i].key = k}}

RECURSIVE WantedIdentifiers(_)
WantedIdentifiers(row) ==
    IF row = <<>> THEN <<>>
    ELSE LET e == Head(row)
             label == [i \in DOMAIN e.key |-> IF e.key[i] = "_" THEN " " ELSE e.key[i]]
             text == IF e.value.t = "number" THEN NatToString(e.value.n) ELSE e.value.s
         IN  (IF e.key # KeyEmail /\ ~EmptyValue(e.value)
              THEN <<[key |-> label, value |-> text]>>
              ELSE <<>>) \o WantedIdentifiers(Tail(row))

\* C20: the identifiers derived from a fetched row are exactly its columns
\* other than email whose value is not empty, in row order, labelled with the
\* column name with '_' replaced by ' ' and valued with the column's value as
\* text, at the session restore and after the verification alike.
C20_IdentifiersFromRow ==
    [][/\ \A f \in Awaiting("onMount", "row"), ans \in RowAnswers :
             (/\ ans.kind = "row"
              /\ CopiesIn(f, flights') < CopiesIn(f, flights)
              /\ onMount_row(f, ans))
             => identifiers' = WantedIdentifiers(ans.row)
       /\ \A f \in Awaiting("handleCodeSubmit", "row"), ans \in RowAnswers :
             (/\ ans.kind = "row"
              /\ CopiesIn(f, flights') < CopiesIn(f, flights)
              /\ handleCodeSubmit_row(f, ans))
             => identifiers' = WantedIdentifiers(ans.row)]_vars

\* C21: saveAdmin sends the whole in-memory row set in one upsert keyed by
\* email; when the store answers with an error or the call throws it sets
\* adminError; and in every case it leaves adminRows and adminColumns as they
\* are and clears adminLoading when it completes.
C21_SaveSendsAllRows ==
    [][/\ saveAdmin
          => /\ \E f \in BagToSet(adminFlights') :
                   /\ adminFlights' = adminFlights (+) SetToBag({f})
                   /\ f.op = "saveAdmin"
                   /\ f.rows = adminRows
                   /\ f.onConflict = Some(KeyEmail)
             /\ flights' = flights
             /\ adminRows' = adminRows
             /\ adminColumns' = adminColumns
       /\ \A f \in AdminAwaiting("saveAdmin"), ans \in PlainAnswers :
             (/\ CopiesIn(f, adminFlights') < CopiesIn(f, adminFlights)
              /\ saveAdmin_resume(f, ans))
             => /\ ans # "ok" => ~IsNull(adminError')
                /\ adminRows' = adminRows
                /\ adminColumns' = adminColumns
                /\ ~adminLoading'
                /\ flights' = flights
                /\ BagCardinality(adminFlights') = BagCardinality(adminFlights) - 1]_vars
\* the table with an edited cell was sent, the store refused it, and the
\* edited table is still on screen under the error
C21_Witness ==
    /\ AdminViewShown
    /\ ~adminLoading
    /\ adminError = Some(AdminSaveFailedMsg)
    /\ Unsaved(adminRows)
    /\ adminFlights = EmptyBag

\* C22: a busy flag is set for as long as its request runs: in every
\* reachable state, a code verification in flight implies verifying, a send
\* request in flight implies sending, and an admin load or save in flight
\* implies adminLoading.
C22_BusyWhileInFlight ==
    /\ (\E f \in BagToSet(flights) : f.op = "handleCodeSubmit") => verifying
    /\ (\E f \in BagToSet(flights) : f.op = "handleEmailSubmit") => sending
    /\ adminFlights # EmptyBag => adminLoading

\* the keys of a row other than email, in the order of the row
RECURSIVE KeysButEmail(_)
KeysButEmail(row) ==
    IF row = <<>> THEN <<>>
    ELSE (IF Head(row).key = KeyEmail THEN <<>> ELSE <<Head(row).key>>)
         \o KeysButEmail(Tail(row))

\* C23: openAdmin shows the admin view before it fetches; when the fetch
\* succeeds it replaces adminRows by the fetched rows and sets adminColumns
\* to the keys other than email of the first fetched row (empty when no row
\* was fetched); when the store answers with an error or the call throws it
\* sets adminError and leaves adminRows and adminColumns as they are; the
\* completion leaves showAdmin as the request set it.
C23_OpenAdminLoadsRows ==
    [][/\ (~showAdmin /\ toggleAdminView)
          => (showAdmin' /\ adminLoading' /\ IsNull(adminError')
              /\ adminRows' = adminRows /\ adminColumns' = adminColumns)
       /\ \A f \in AdminAwaiting("openAdmin"), ans \in TableAnswers :
             (/\ CopiesIn(f, adminFlights') < CopiesIn(f, adminFlights)
              /\ openAdmin_resume(f, ans))
             => /\ showAdmin' = showAdmin
                /\ IF ans.kind \in {"rows", "nodata"}
                   THEN /\ adminRows' = ans.rows
                        /\ adminColumns' = IF ans.rows = <<>> THEN <<>>
                                           ELSE KeysButEmail(ans.rows[1])
                   ELSE /\ ~IsNull(adminError')
                        /\ adminRows' = adminRows
                        /\ adminColumns' = adminColumns]_vars
\* the table whose first row is {plan_id, email, group_no} is on screen with
\* the columns plan_id and group_no
C23_Witness ==
    /\ AdminViewShown
    /\ ~adminLoading
    /\ IsNull(adminError)
    /\ adminRows = <<RowTwo, RowPlan>>
    /\ adminColumns = <<KeyPlanId, KeyGroupNo>>

\* C24: in every reachable state the admin view flag is set only in the
\* success step: showAdmin = true implies step = 'success'.
C24_AdminOnlyInSuccess == showAdmin => step = "success"

\* a request of the modal is running
ModalBusy == sending \/ verifying \/ fetchingId
\* everything but modalOpen and step
ModalRest == <<email, code, identifier, sending, verifying, fetchingId,
               emailError, codeError, generalError, flights, pageOnlyVars>>
\* a call of closeModal(), from a click or from the Escape key
CloseCalled == closeModal \/ handleKeydown(KeyEscape)

\* C25: in the modal variant closeModal() changes nothing while sending,
\* verifying or fetchingId is set, so the dialog never closes while a request
\* is in flight; otherwise it sets modalOpen = false and step = 'idle' and
\* changes nothing else.
C25_CloseOnlyWhenIdle ==
    [][/\ (modalOpen /\ ModalBusy /\ CloseCalled) => UNCHANGED vars
       /\ (modalOpen /\ ~ModalBusy /\ CloseCalled)
             => (~modalOpen' /\ step' = "idle" /\ UNCHANGED ModalRest)
       /\ (modalOpen /\ ~modalOpen')
             => (~ModalBusy /\ flights = EmptyBag /\ step' = "idle" /\ UNCHANGED ModalRest)
       /\ flights' # EmptyBag => modalOpen']_vars
\* the dialog was closed from the success pane: the identifier is still in
\* memory and no request is pending
C25_Witness ==
    /\ ~modalOpen
    /\ step = "idle"
    /\ ~IsNull(identifier)
    /\ ~ModalBusy
    /\ flights = EmptyBag

=============================================================================
